---------------------------- MODULE Spec2Model ----------------------------
(***************************************************************************)
(* A model of generate_context.py: the tree builder                        *)
(* (get_directory_structure), the file collector (collect_files), the      *)
(* content extractor (process_file_content, extract_ipynb_code), the       *)
(* processing loop (process_files) and main.                               *)
(*                                                                         *)
(* Entry names (files and directories) are records                         *)
(*     [base |-> s, num |-> n, ext |-> e]                                  *)
(* standing for the string  s ++ (n if n > 0) ++ e,  where e is what       *)
(* os.path.splitext gives as the extension.  The tree's box-drawing        *)
(* connectors are written in ASCII: "\-- " is the closing connector,        *)
(* "|-- " the other one, "|   " the vertical-bar continuation.             *)
(***************************************************************************)
EXTENDS Integers, Sequences, FiniteSets, TLC

VARIABLES
    fs,                 \* the directory tree under the root (a snapshot)
    exclude_dirs,       \* main: DIRS_TO_EXCLUDE | set(args.exclude)
    summarize_dirs,     \* main: DIRS_TO_SUMMARIZE | set(args.summarize)
    gitignore_patterns, \* main: get_gitignore_patterns(root_dir) or set()
    quiet,              \* args.quiet
    pc,                 \* position of main
    tree_lines,         \* get_directory_structure: lines
    tree_stats,         \* get_directory_structure: stats
    tree_counted,       \* which file each tree counter counted (history)
    files,              \* collect_files: the sorted list
    next_file,          \* process_files: index of the next file of the loop
    handled,            \* process_files: each file handled so far, with what
                        \* the disk held and what was returned (history)
    file_stats,         \* process_files: stats
    footer,             \* main: the summary footer written to the report
    console,            \* what main printed
    exit_status,        \* the process's exit status
    output,             \* the output file: "closed", "open" or "failed"
    call,               \* input of the extractor under study
    ret                 \* its result

vars == <<fs, exclude_dirs, summarize_dirs, gitignore_patterns, quiet, pc,
          tree_lines, tree_stats, tree_counted, files, next_file, handled,
          file_stats, footer, console, exit_status, output, call, ret>>

-----------------------------------------------------------------------------
(* Bounds of the model *)

\* number of directories of the tree in SpecWalk (the root included)
MaxDirs == 3
\* number of files of the whole tree in SpecWalk
MaxFiles == 2
\* number of directories of the tree in SpecTree (the root included)
MaxTreeDirs == 2
\* show-able files per directory in SpecTree go up to MAX_FILES_PER_DIR + Extra
Extra == 5
\* skip-extension files per directory in SpecTree
MaxSkip == 1
\* the filler of a file is laid out in lines of FillWidth characters
FillWidth == 999
\* number of files of the root directory in Spec
MaxMainFiles == 2
\* length of the text of an exception
ErrLen == 30
\* length of the summary of a parsed JSON file, its annotation included
SummaryLen == 120
\* bytes of the report outside the file blocks
ReportBase == 400
\* number of tokens before the filler of a file in SpecExtract
MaxHead == 2
\* number of cells of a notebook in SpecExtract
MaxCells == 2
\* number of containers around a leaf of a JSON value in SpecJson
MaxNest == 5

-----------------------------------------------------------------------------
(* Configuration *)

N(base, num, ext) == [base |-> base, num |-> num, ext |-> ext]

OUTPUT_FILE == N("directory_info", 0, ".txt")

\* os.path.basename(__file__)
SCRIPT_NAME == N("generate_context", 0, ".py")

DIRS_TO_EXCLUDE ==
    { N(".git", 0, ""), N("venv", 0, ""), N("env", 0, ""), N(".venv", 0, ""),
      N("__pycache__", 0, ""), N(".idea", 0, ""), N(".vscode", 0, ""),
      N("node_modules", 0, ""), N(".mypy_cache", 0, ""),
      N(".pytest_cache", 0, ""), N(".tox", 0, ""), N(".eggs", 0, ""),
      N("*", 0, ".egg-info"), N("dist", 0, ""), N("build", 0, ""),
      N(".cache", 0, ""), N(".coverage", 0, ""), N("htmlcov", 0, ""),
      N(".ipynb_checkpoints", 0, ""), N(".terraform", 0, ""),
      N(".serverless", 0, "") }

DIRS_TO_SUMMARIZE ==
    { N("signals", 0, ""), N("unprocessed", 0, ""), N("data", 0, ""),
      N("datasets", 0, ""), N("logs", 0, ""), N("outputs", 0, ""),
      N("checkpoints", 0, ""), N("models", 0, ""), N("weights", 0, ""),
      N("assets", 0, ""), N("static", 0, ""), N("migrations", 0, "") }

EXTENSIONS_TO_SKIP ==
    { ".flac", ".wav", ".mp3", ".ogg", ".m4a", ".aac", ".wma", ".aiff",
      ".mp4", ".avi", ".mkv", ".mov", ".wmv", ".webm", ".flv",
      ".png", ".jpg", ".jpeg", ".gif", ".bmp", ".tiff", ".ico", ".webp", ".svg",
      ".pdf", ".doc", ".docx", ".xls", ".xlsx", ".ppt", ".pptx", ".odt",
      ".zip", ".rar", ".7z", ".tar", ".gz", ".bz2", ".xz", ".zst",
      ".exe", ".dll", ".so", ".dylib", ".bin", ".o", ".a", ".lib",
      ".pkl", ".pickle", ".npy", ".npz", ".h5", ".hdf5",
      ".pt", ".pth", ".ckpt", ".safetensors", ".onnx", ".pb",
      ".db", ".sqlite", ".sqlite3", ".mdb",
      ".pyc", ".pyo", ".class", ".jar", ".war", ".woff", ".woff2", ".ttf",
      ".eot" }

TEXT_EXTENSIONS ==
    { ".py", ".js", ".ts", ".jsx", ".tsx", ".java", ".c", ".cpp", ".h", ".hpp",
      ".cs", ".go", ".rs", ".rb", ".php", ".swift", ".kt", ".scala", ".r",
      ".lua", ".pl", ".pm", ".sh", ".bash", ".zsh", ".fish", ".ps1", ".bat",
      ".cmd",
      ".json", ".yaml", ".yml", ".toml", ".ini", ".cfg", ".conf", ".config",
      ".env", ".env.example", ".env.local", ".properties",
      ".md", ".rst", ".txt", ".adoc",
      ".html", ".htm", ".css", ".scss", ".sass", ".less", ".vue", ".svelte",
      ".xml", ".csv", ".sql",
      ".gitignore", ".dockerignore", ".editorconfig", ".prettierrc",
      ".eslintrc" }

PRIORITY_FILES ==
    { N("README", 0, ".md"), N("readme", 0, ".md"), N("README", 0, ".rst"),
      N("README", 0, ".txt"), N("README", 0, ""),
      N("pyproject", 0, ".toml"), N("setup", 0, ".py"), N("setup", 0, ".cfg"),
      N("requirements", 0, ".txt"),
      N("package", 0, ".json"), N("Cargo", 0, ".toml"), N("go", 0, ".mod"),
      N("Gemfile", 0, ""), N("pom", 0, ".xml"),
      N("Makefile", 0, ""), N("Dockerfile", 0, ""),
      N("docker-compose", 0, ".yml"), N("docker-compose", 0, ".yaml"),
      N(".env", 0, ".example"), N("config", 0, ".yaml"),
      N("config", 0, ".json"), N("settings", 0, ".py"),
      N("main", 0, ".py"), N("app", 0, ".py"), N("index", 0, ".js"),
      N("index", 0, ".ts"), N("main", 0, ".go"), N("main", 0, ".rs") }

MAX_FILES_PER_DIR == 30
MAX_FILE_SIZE_FULL == 20000
MAX_FILE_SIZE_PARTIAL == 200000
MAX_LINES_PREVIEW == 100
ESTIMATED_CHARS_PER_TOKEN == 4

-----------------------------------------------------------------------------
(* Utility functions *)

Min(a, b) == IF a < b THEN a ELSE b

\* str.lower() on the extensions and bases the model uses
Lower(s) ==
    CASE s = ".PNG"   -> ".png"
      [] s = ".JSON"  -> ".json"
      [] s = "README" -> "readme"
      [] s = "Readme" -> "readme"
      [] OTHER        -> s

\* os.path.splitext(f)[1].lower()
ExtOf(f) == Lower(f.ext)

\* pattern.startswith('*'): a pattern "*<tail>" is written N("*", 0, tail)
StartsWithStar(pattern) == pattern.base = "*"

\* dirname.endswith(pattern[1:]); every string ends with the empty string
EndsWith(dirname, pattern) ==
    pattern.ext = "" \/ dirname.ext = pattern.ext

should_exclude_dir(dirname, exclude_set) ==
    \/ dirname \in exclude_set
    \/ \E pattern \in exclude_set :
          StartsWithStar(pattern) /\ EndsWith(dirname, pattern)

-----------------------------------------------------------------------------
(* The directory tree.  fs[d] is directory d: its name, its parent (0 for  *)
(* the root), whether it is a symbolic link to a directory, whether        *)
(* listing it is denied, and its files in sorted order.  Sibling           *)
(* directories have increasing ids in the order of their names.            *)

rootdir == 1

Dirs == DOMAIN fs

RECURSIVE SetToSortedSeq(_)
SetToSortedSeq(S) ==
    IF S = {} THEN <<>>
    ELSE LET m == CHOOSE x \in S : \A y \in S : x <= y
         IN  <<m>> \o SetToSortedSeq(S \ {m})

\* the directory entries of sorted(os.listdir(path))
ListSubdirs(d) == SetToSortedSeq({c \in Dirs : fs[c].parent = d})

\* the other entries of sorted(os.listdir(path))
ListFiles(d) == fs[d].files

SeqToSet(s) == {s[i] : i \in DOMAIN s}

\* the `dirs` list of _walk_dir
RetainedDirs(d) ==
    SelectSeq(ListSubdirs(d),
              LAMBDA c : /\ ~should_exclude_dir(fs[c].name, exclude_dirs)
                         /\ fs[c].name \notin gitignore_patterns)

\* the `files` list of _walk_dir (mutant: the ignore patterns are not applied)
RetainedFilesNoIgnore(d) ==
    SelectSeq(ListFiles(d), LAMBDA f : f \notin {OUTPUT_FILE, SCRIPT_NAME})

\* the `files` list of _walk_dir
RetainedFiles(d) ==
    SelectSeq(ListFiles(d),
              LAMBDA f : /\ f \notin {OUTPUT_FILE, SCRIPT_NAME}
                         /\ f \notin gitignore_patterns)

-----------------------------------------------------------------------------
(* get_directory_structure *)

NoName == N("", 0, "")

\* One line of the tree.  kind is "root", "dir", "file", "more", "skipped",
\* "summary" or "denied"; in is the directory the line is a child of (0 for
\* the root's line); dir is the directory a "root" or "dir" line names;
\* prefix is the indentation, a sequence of four-column units.
Line(kind, in, dir, prefix, connector, name, n) ==
    [kind |-> kind, in |-> in, dir |-> dir, prefix |-> prefix,
     connector |-> connector, name |-> name, n |-> n]

Connector(is_last) == IF is_last THEN "\\-- " ELSE "|-- "

Indent(is_last) == IF is_last THEN "    " ELSE "|   "

NoStats ==
    [summarized_dirs |-> 0, summarized_files |-> 0, skipped_files |-> 0,
     total_files |-> 0, total_dirs |-> 0]

NoCounted == [summarized |-> {}, skipped |-> {}, total |-> {}]

\* a file of the tree: the directory it is in and its name
Path(d, f) == <<d, f>>

PathsOf(d, fseq) == {Path(d, fseq[i]) : i \in DOMAIN fseq}

IsSummarized(basename) == basename \in summarize_dirs

\* (mutant: a summary line even for no files)
SummaryLinesAlways(d, new_prefix, fseq) ==
    <<Line("summary", d, 0, new_prefix, "", NoName, Len(fseq))>>

\* the summary line of a summarized directory
SummaryLines(d, new_prefix, fseq) ==
    IF fseq # <<>>
    THEN <<Line("summary", d, 0, new_prefix, "", NoName, Len(fseq))>>
    ELSE <<>>

\* the summarize branch of _walk_dir, up to its return
SummarizeDir(d, new_prefix, fseq, acc) ==
    [lines   |-> acc.lines \o SummaryLines(d, new_prefix, fseq),
     stats   |-> [acc.stats EXCEPT !.summarized_dirs = @ + 1,
                                   !.summarized_files = @ + Len(fseq)],
     counted |-> [acc.counted EXCEPT
                     !.summarized = @ \cup PathsOf(d, fseq)]]

FilesToShow(fseq) == SelectSeq(fseq, LAMBDA f : ExtOf(f) \notin EXTENSIONS_TO_SKIP)

SkippedByExt(fseq) == SelectSeq(fseq, LAMBDA f : ExtOf(f) \in EXTENSIONS_TO_SKIP)

TotalEntries(dirs, files_to_show, skipped_by_ext) ==
    Len(dirs) + Len(files_to_show) + (IF skipped_by_ext # <<>> THEN 1 ELSE 0)

\* (mutant: the cap is applied one file late)
ShownFilesOffByOne(files_to_show) ==
    SubSeq(files_to_show, 1, Min(Len(files_to_show), MAX_FILES_PER_DIR + 1))

\* files_to_show[:MAX_FILES_PER_DIR]
ShownFiles(files_to_show) ==
    SubSeq(files_to_show, 1, Min(Len(files_to_show), MAX_FILES_PER_DIR))

FileLines(d, new_prefix, files_to_show, total_entries) ==
    LET shown == ShownFiles(files_to_show)
    IN  [i \in 1..Len(shown) |->
            Line("file", d, 0, new_prefix, Connector(i = total_entries),
                 shown[i], 0)]

MoreLines(d, new_prefix, files_to_show, entry_idx, total_entries) ==
    IF Len(files_to_show) > MAX_FILES_PER_DIR
    THEN <<Line("more", d, 0, new_prefix,
                Connector(entry_idx + 1 = total_entries), NoName,
                Len(files_to_show) - MAX_FILES_PER_DIR)>>
    ELSE <<>>

SkippedLines(d, new_prefix, skipped_by_ext, entry_idx, total_entries) ==
    IF skipped_by_ext # <<>>
    THEN <<Line("skipped", d, 0, new_prefix,
                Connector(entry_idx + 1 = total_entries), NoName,
                Len(skipped_by_ext))>>
    ELSE <<>>

\* the is_last argument of the recursive call for dirs[i]
SubdirIsLast(i, dirs, entry_idx, total_entries) ==
    i = Len(dirs) /\ entry_idx = total_entries

RECURSIVE walk_dir(_, _, _, _)
RECURSIVE WalkSubdirs(_, _, _, _, _, _)

\* the non-summarized part of _walk_dir: files, then subdirectories
ListDir(d, new_prefix, dirs, fseq, acc) ==
    LET files_to_show  == FilesToShow(fseq)
        skipped_by_ext == SkippedByExt(fseq)
        total_entries  == TotalEntries(dirs, files_to_show, skipped_by_ext)
        flines   == FileLines(d, new_prefix, files_to_show, total_entries)
        idx1     == Len(flines)
        mlines   == MoreLines(d, new_prefix, files_to_show, idx1, total_entries)
        idx2     == idx1 + Len(mlines)
        slines   == SkippedLines(d, new_prefix, skipped_by_ext, idx2,
                                 total_entries)
        entry_idx == idx2 + Len(slines)
        acc1 == [lines   |-> acc.lines \o flines \o mlines \o slines,
                 stats   |-> [acc.stats EXCEPT
                                !.skipped_files = @ + Len(skipped_by_ext),
                                !.total_files = @ + Len(files_to_show)],
                 counted |-> [acc.counted EXCEPT
                                !.skipped = @ \cup PathsOf(d, skipped_by_ext),
                                !.total = @ \cup PathsOf(d, files_to_show)]]
    IN  WalkSubdirs(dirs, 1, new_prefix, entry_idx, total_entries, acc1)

\* for i, d in enumerate(dirs): _walk_dir(...); stats['total_dirs'] += 1
WalkSubdirs(dirs, i, new_prefix, entry_idx, total_entries, acc) ==
    IF i > Len(dirs) THEN acc
    ELSE LET a == walk_dir(dirs[i], new_prefix,
                           SubdirIsLast(i, dirs, entry_idx, total_entries), acc)
         IN  WalkSubdirs(dirs, i + 1, new_prefix, entry_idx, total_entries,
                         [a EXCEPT !.stats.total_dirs = @ + 1])

\* _walk_dir(path, prefix, is_last)
walk_dir(d, prefix, is_last, acc) ==
    LET basename   == fs[d].name
        head       == IF d = rootdir
                      THEN Line("root", 0, d, <<>>, "", basename, 0)
                      ELSE Line("dir", fs[d].parent, d, prefix,
                                Connector(is_last), basename, 0)
        new_prefix == IF d = rootdir THEN <<>>
                      ELSE Append(prefix, Indent(is_last))
        acc1       == [acc EXCEPT !.lines = Append(@, head)]
    IN  IF fs[d].denied
        THEN [acc1 EXCEPT !.lines =
                 Append(@, Line("denied", d, 0, new_prefix, "", NoName, 0))]
        ELSE IF IsSummarized(basename)
        THEN SummarizeDir(d, new_prefix, RetainedFiles(d), acc1)
        ELSE ListDir(d, new_prefix, RetainedDirs(d), RetainedFiles(d), acc1)

get_directory_structure ==
    walk_dir(rootdir, <<>>, TRUE,
             [lines |-> <<>>, stats |-> NoStats, counted |-> NoCounted])

GetDirectoryStructure ==
    /\ pc = "tree"
    /\ LET r == get_directory_structure
       IN  /\ tree_lines' = r.lines
           /\ tree_stats' = r.stats
           /\ tree_counted' = r.counted
    /\ pc' = "collect"
    /\ console' = IF quiet THEN console ELSE Append(console, "Processing files...")
    /\ UNCHANGED <<fs, exclude_dirs, summarize_dirs, gitignore_patterns, quiet,
                   files, next_file, handled, file_stats, footer, exit_status,
                   output, call, ret>>

-----------------------------------------------------------------------------
(* collect_files *)

\* The strings of the model's names in the order Python compares them.  No
\* file's base is a directory's name, so comparing relative paths name by
\* name gives the order of the path strings; numbered names are zero-padded.
StrOrder ==
    << "", ".PNG", ".egg-info", ".git", ".ipynb", ".json", ".jsonl", ".lock",
       ".log", ".mod", ".py", ".toml", ".txt", ".yaml", "README", "a", "b",
       "c", "cfg", "d", "data", "directory_info", "e", "f", "g", "go",
       "ignored", "link", "n", "pkg", "priv", "proj", "src", "tmp" >>

Rank(s) == CHOOSE i \in DOMAIN StrOrder : StrOrder[i] = s

NameLess(a, b) ==
    \/ Rank(a.base) < Rank(b.base)
    \/ a.base = b.base /\ a.num < b.num
    \/ a.base = b.base /\ a.num = b.num /\ Rank(a.ext) < Rank(b.ext)

RECURSIVE PathLess(_, _)
PathLess(p, q) ==
    IF p = <<>> THEN q # <<>>
    ELSE IF q = <<>> THEN FALSE
    ELSE IF Head(p) = Head(q) THEN PathLess(Tail(p), Tail(q))
    ELSE NameLess(Head(p), Head(q))

\* the names from the root (excluded) down to directory d
RECURSIVE DirPath(_)
DirPath(d) == IF d = rootdir THEN <<>> ELSE Append(DirPath(fs[d].parent), fs[d].name)

\* os.path.relpath(filepath, rootdir)
RelPath(d, f) == Append(DirPath(d), f)

\* filename.lower().startswith('readme')
StartsWithReadme(filename) == Lower(filename.base) = "readme"

Priority(filename) ==
    IF filename \in PRIORITY_FILES THEN 0
    ELSE IF StartsWithReadme(filename) THEN 1
    ELSE IF ExtOf(filename) \in {".py", ".js", ".ts", ".go", ".rs"} THEN 2
    ELSE IF ExtOf(filename) \in {".json", ".yaml", ".yml", ".toml"} THEN 3
    ELSE 4

FileRecord(d, f) ==
    [priority |-> Priority(f), rel_path |-> RelPath(d, f), dir |-> d, name |-> f]

\* the filter of the inner loop of collect_files
Collectable(f) ==
    /\ f # OUTPUT_FILE /\ f # SCRIPT_NAME
    /\ f \notin gitignore_patterns
    /\ ExtOf(f) \notin EXTENSIONS_TO_SKIP

\* os.walk's rule for descending into a listed directory (followlinks=False)
WalkInto(c) == ~fs[c].symlink

RECURSIVE os_walk(_, _)
RECURSIVE WalkDirnames(_, _, _)

\* one (dirpath, dirnames, filenames) of os.walk with the loop body of
\* collect_files, then the directories os.walk goes on to
os_walk(d, acc) ==
    IF fs[d].denied THEN acc
    ELSE LET dirnames  == RetainedDirs(d)
             collected == SelectSeq(ListFiles(d), Collectable)
         IN  IF fs[d].name \in summarize_dirs THEN acc
             ELSE WalkDirnames(dirnames, 1,
                     acc \o [i \in 1..Len(collected) |-> FileRecord(d, collected[i])])

WalkDirnames(dirnames, i, acc) ==
    IF i > Len(dirnames) THEN acc
    ELSE WalkDirnames(dirnames, i + 1,
            IF WalkInto(dirnames[i]) THEN os_walk(dirnames[i], acc) ELSE acc)

\* the sort key (priority, rel_path)
KeyLess(a, b) ==
    \/ a.priority < b.priority
    \/ a.priority = b.priority /\ PathLess(a.rel_path, b.rel_path)

RECURSIVE Insert(_, _)
Insert(x, sorted) ==
    IF sorted = <<>> THEN <<x>>
    ELSE IF KeyLess(x, Head(sorted)) THEN <<x>> \o sorted
    ELSE <<Head(sorted)>> \o Insert(x, Tail(sorted))

RECURSIVE SortFiles(_)
SortFiles(s) == IF s = <<>> THEN <<>> ELSE Insert(Head(s), SortFiles(Tail(s)))

collect_files == SortFiles(os_walk(rootdir, <<>>))

NoFileStats == [processed |-> 0, skipped |-> 0, errors |-> 0, total_chars |-> 0]

CollectFiles ==
    /\ pc = "collect"
    /\ files' = collect_files
    /\ next_file' = 1
    /\ file_stats' = NoFileStats
    /\ pc' = "process"
    /\ UNCHANGED <<fs, exclude_dirs, summarize_dirs, gitignore_patterns, quiet,
                   tree_lines, tree_stats, tree_counted, handled, footer,
                   console, exit_status, output, call, ret>>

-----------------------------------------------------------------------------
(* Trees *)

\* the sorted subsequence of `names` at the positions in S
Pick(names, S) == [i \in 1..Cardinality(S) |-> names[SetToSortedSeq(S)[i]]]

\* the subsets of S of at most k elements
RECURSIVE SubsetsUpTo(_, _)
SubsetsUpTo(S, k) ==
    IF k = 0 THEN {{}}
    ELSE LET smaller == SubsetsUpTo(S, k - 1)
         IN  smaller \cup {T \cup {x} : T \in smaller, x \in S}

Dir(name, parent, symlink, denied, fseq) ==
    [name |-> name, parent |-> parent, symlink |-> symlink, denied |-> denied,
     files |-> fseq]

ROOT_NAME == N("proj", 0, "")

\* the patterns of the root's .gitignore in SpecWalk
WalkIgnore == {N("ignored", 0, ".log"), N("tmp", 0, "")}

WalkDirNames ==
    { N(".git", 0, ""), N("data", 0, ""), N("link", 0, ""),
      N("pkg", 0, ".egg-info"), N("src", 0, ""), N("tmp", 0, "") }

WalkFileNames ==
    << N("a", 0, ".py"), N("b", 0, ".PNG"), N("directory_info", 0, ".txt"),
       N("ignored", 0, ".log") >>

\* the shapes of a tree of n directories: each directory's parent (0 for the
\* root) has a smaller id
Shapes(n) ==
    {p \in [1..n -> 0..(n - 1)] :
        p[1] = 0 /\ \A d \in 2..n : p[d] \in 1..(d - 1)}

\* the names of its directories: siblings in the order of their names
Namings(n, p, names, roots) ==
    {nm \in [1..n -> names \cup roots] :
        /\ nm[1] \in roots
        /\ \A d \in 2..n : nm[d] \in names
        /\ \A c1, c2 \in 2..n :
              (c1 < c2 /\ p[c1] = p[c2]) => NameLess(nm[c1], nm[c2])}

\* at most k files in the whole tree, each a name of `names` in a directory
Placements(n, names, k) == SubsetsUpTo((1..n) \X DOMAIN names, k)

FilesAt(d, names, placed) == Pick(names, {x[2] : x \in {y \in placed : y[1] = d}})

\* a tree of shape p named by nm holding the files `placed`; "link" is a
\* symbolic link to a directory
WalkTree(n, p, nm, placed) ==
    [d \in 1..n |->
        Dir(nm[d], p[d], nm[d] = N("link", 0, ""), FALSE,
            FilesAt(d, WalkFileNames, placed))]

InitRest ==
    /\ tree_lines = <<>>
    /\ tree_stats = NoStats
    /\ tree_counted = NoCounted
    /\ files = <<>>
    /\ next_file = 1
    /\ handled = <<>>
    /\ file_stats = NoFileStats
    /\ footer = [written |-> FALSE]
    /\ console = <<>>
    /\ exit_status = -1
    /\ output = "closed"
    /\ call = [op |-> "none"]
    /\ ret = [op |-> "none"]

InitWalk ==
    /\ \E n \in 1..MaxDirs :
         \E p \in Shapes(n) :
           \E nm \in Namings(n, p, WalkDirNames, {ROOT_NAME}) :
             \E placed \in Placements(n, WalkFileNames, MaxFiles) :
               fs = WalkTree(n, p, nm, placed)
    /\ exclude_dirs = DIRS_TO_EXCLUDE
    /\ summarize_dirs = DIRS_TO_SUMMARIZE
    /\ gitignore_patterns = WalkIgnore
    /\ quiet = TRUE
    /\ pc = "tree"
    /\ InitRest

NextWalk == GetDirectoryStructure \/ CollectFiles

SpecWalk == InitWalk /\ [][NextWalk]_vars

-----------------------------------------------------------------------------
(* Trees with many files per directory, for the tree builder alone *)

TreeDirNames == {N("data", 0, ""), N("priv", 0, ""), N("src", 0, "")}

TreeRootNames == {ROOT_NAME, N("data", 0, "")}

\* the patterns of the root's .gitignore in SpecTree: none, or one file name
TreeIgnores == {{}, {N("f", 1, ".py")}}

ShowCounts ==
    {0, 1} \cup ((MAX_FILES_PER_DIR - 1)..(MAX_FILES_PER_DIR + 1))
           \cup {MAX_FILES_PER_DIR + Extra}

\* files f01.py, f02.py, ... and g01.PNG, g02.PNG, ... in sorted order
GenFiles(nshow, nskip) ==
    [i \in 1..nshow |-> N("f", i, ".py")] \o [j \in 1..nskip |-> N("g", j, ".PNG")]

\* "priv" cannot be listed
BigTree(n, p, nm, cnt) ==
    [d \in 1..n |->
        Dir(nm[d], p[d], FALSE, nm[d] = N("priv", 0, ""),
            GenFiles(cnt[d][1], cnt[d][2]))]

InitTree ==
    /\ \E n \in 1..MaxTreeDirs :
         \E p \in Shapes(n) :
           \E nm \in Namings(n, p, TreeDirNames, TreeRootNames) :
             \E cnt \in [1..n -> ShowCounts \X (0..MaxSkip)] :
               fs = BigTree(n, p, nm, cnt)
    /\ exclude_dirs = DIRS_TO_EXCLUDE
    /\ summarize_dirs = DIRS_TO_SUMMARIZE
    /\ gitignore_patterns \in TreeIgnores
    /\ quiet = TRUE
    /\ pc = "tree"
    /\ InitRest

NextTree == GetDirectoryStructure

SpecTree == InitTree /\ [][NextTree]_vars

-----------------------------------------------------------------------------
(* Strings and files.  A file on disk is                                   *)
(*   [exists, readable, head, fill, parse_ok, summary_len, err_len, cells] *)
(* its bytes are the tokens of head followed by fill filler bytes, laid    *)
(* out as lines of FillWidth "x" and a newline.  The tokens of head are    *)
(* "x" (an ASCII character), "LF", "CR", "BAD" (a byte that is not valid   *)
(* UTF-8), "U2" (a character of two bytes) and "[Error" (these six         *)
(* characters).  parse_ok says whether json.load accepts the content,      *)
(* summary_len is the length of what summarize_json_structure and the      *)
(* trailing annotation make of it, err_len the length of the text of the   *)
(* exception a failing read or parse raises, cells the notebook's cells.   *)

\* the magic numbers of the extractors
MD_LIMIT == 500
SMALL_JSON == 5000
JSONL_LINES == 5

RECURSIVE Digits(_)
\* len(str(n)) for n >= 0
Digits(n) == IF n < 10 THEN 1 ELSE 1 + Digits(n \div 10)

\* len(str(n)) for any integer
IntLen(n) == IF n < 0 THEN 1 + Digits(0 - n) ELSE Digits(n)

\* len(f"{size_bytes / div:.1f}") + 2: the tenths are rounded to nearest
\* (a tie never changes the number of digits)
OneDecimalLen(size_bytes, div) ==
    Digits(((20 * size_bytes + div) \div (2 * div)) \div 10) + 2 + 2

RECURSIVE FormatSizeLenFrom(_, _, _)
\* format_size from the k-th unit on; `div` is 1024^k
FormatSizeLenFrom(size_bytes, k, div) ==
    IF k = 4 THEN OneDecimalLen(size_bytes, div)
    ELSE IF size_bytes < 1024 * div
         THEN IF k = 0 THEN Digits(size_bytes) + 1
              ELSE OneDecimalLen(size_bytes, div)
         ELSE FormatSizeLenFrom(size_bytes, k + 1, div * 1024)

\* len(format_size(size_bytes))
FormatSizeLen(size_bytes) == FormatSizeLenFrom(size_bytes, 0, 1)

TokBytes(t) == CASE t = "[Error" -> 6 [] t = "U2" -> 2 [] OTHER -> 1

TokChars(t) == IF t = "[Error" THEN 6 ELSE 1

RECURSIVE SumBytes(_)
SumBytes(b) == IF b = <<>> THEN 0 ELSE TokBytes(Head(b)) + SumBytes(Tail(b))

RECURSIVE SumChars(_)
SumChars(h) == IF h = <<>> THEN 0 ELSE TokChars(Head(h)) + SumChars(Tail(h))

RECURSIVE SumNat(_)
SumNat(ns) == IF ns = <<>> THEN 0 ELSE Head(ns) + SumNat(Tail(ns))

RECURSIVE SumLen(_)
SumLen(ps) == IF ps = <<>> THEN 0 ELSE Head(ps).len + SumLen(Tail(ps))

\* os.path.getsize(filepath)
SizeOf(attr) == SumBytes(attr.head) + attr.fill

RECURSIVE Decode(_)
\* open(..., 'r', encoding='utf-8', errors='replace').read() on the head:
\* undecodable bytes become U+FFFD, "\r\n" and "\r" become "\n"
Decode(b) ==
    IF b = <<>> THEN <<>>
    ELSE IF Head(b) = "CR"
         THEN IF Len(b) >= 2 /\ b[2] = "LF"
              THEN <<"LF">> \o Decode(Tail(Tail(b)))
              ELSE <<"LF">> \o Decode(Tail(b))
    ELSE IF Head(b) = "BAD" THEN <<"FFFD">> \o Decode(Tail(b))
    ELSE <<Head(b)>> \o Decode(Tail(b))

\* len(content) of the text with head `h` (decoded) and `fill` filler bytes
TextLen(h, fill) == SumChars(h) + fill

NLCount(h) == Cardinality({i \in DOMAIN h : h[i] = "LF"})

\* the number of "\n" in the text
TotalNL(h, fill) == NLCount(h) + fill \div (FillWidth + 1)

RECURSIVE HeadThroughNL(_, _)
\* the characters of h up to and including its k-th "\n"
HeadThroughNL(h, k) ==
    IF k = 0 THEN 0
    ELSE TokChars(Head(h)) + HeadThroughNL(Tail(h), IF Head(h) = "LF" THEN k - 1 ELSE k)

\* the characters of the text up to and including its k-th "\n"
CharsThroughNL(h, fill, k) ==
    IF k <= NLCount(h) THEN HeadThroughNL(h, k)
    ELSE SumChars(h) + (k - NLCount(h)) * (FillWidth + 1)

\* len('\n'.join(content.split('\n')[:MAX_LINES_PREVIEW]))
PreviewLen(h, fill) ==
    IF TotalNL(h, fill) >= MAX_LINES_PREVIEW
    THEN CharsThroughNL(h, fill, MAX_LINES_PREVIEW) - 1
    ELSE TextLen(h, fill)

\* len(content.split('\n'))
SplitCount(h, fill) == TotalNL(h, fill) + 1

\* A Python value returned by the extractors: None, or a str of `len`
\* characters.  kind says which branch made it; head and fill are the text
\* read, parts the notebook's parts, n the number shown in a note and kept
\* the number of lines kept by a preview.
PyValue(is_none, kind, h, fill, len, starts_error, parts, n, kept) ==
    [is_none |-> is_none, kind |-> kind, head |-> h, fill |-> fill,
     len |-> len, starts_error |-> starts_error, parts |-> parts, n |-> n,
     kept |-> kept]

None == PyValue(TRUE, "None", <<>>, 0, 0, FALSE, <<>>, 0, 0)

\* a message built by the extractor itself
Message(kind, len, starts_error) ==
    PyValue(FALSE, kind, <<>>, 0, len, starts_error, <<>>, 0, 0)

\* content.startswith('[Error') for a text read from disk
StartsWithError(h) == h # <<>> /\ Head(h) = "[Error"

\* f.read()
ReadText(attr) ==
    LET h == Decode(attr.head)
    IN  PyValue(FALSE, "text", h, attr.fill, TextLen(h, attr.fill),
                StartsWithError(h), <<>>, 0, 0)

\* f"[Error reading file: {e}]"
ReadError(attr) == Message("read_error", 21 + attr.err_len + 1, TRUE)

\* (mutant: a file over the ceiling is dropped)
TooLargeNone(file_size) == None

\* f"[File too large: {format_size(file_size)} - skipped]"
TooLarge(file_size) ==
    Message("too_large", 17 + FormatSizeLen(file_size) + 11, FALSE)

-----------------------------------------------------------------------------
(* extract_ipynb_code.  A cell is [cell_type, lines]: lines are the        *)
(* lengths of the lines of its joined source, source.split('\n').          *)

\* len(''.join(source))
JoinedLen(lines) == SumNat(lines) + Len(lines) - 1

Part(kind, cell, len, lines) ==
    [kind |-> kind, cell |-> cell, len |-> len, lines |-> lines]

\* (mutant: the limit is inclusive)
MarkdownIncludedUpTo(source_len) == source_len <= MD_LIMIT

\* len(source) < 500
MarkdownIncluded(source_len) == source_len < MD_LIMIT

\* what the loop appends for cells[i]
CellParts(cells, i) ==
    LET cell == cells[i]
    IN  IF cell.cell_type = "code"
        THEN << Part("code_marker", i, 12 + Digits(i) + 11, <<>>),
                Part("code", i, JoinedLen(cell.lines), cell.lines) >>
        ELSE IF cell.cell_type = "markdown" /\ MarkdownIncluded(JoinedLen(cell.lines))
        THEN <<Part("markdown_marker", i, 12 + Digits(i) + 15, <<>>)>>
             \o [j \in 1..Len(cell.lines) |->
                    Part("markdown_line", i, 2 + cell.lines[j], <<cell.lines[j]>>)]
        ELSE <<>>

RECURSIVE AllCellParts(_, _)
AllCellParts(cells, i) ==
    IF i > Len(cells) THEN <<>> ELSE CellParts(cells, i) \o AllCellParts(cells, i + 1)

CountCells(cells, type) ==
    Cardinality({i \in DOMAIN cells : cells[i].cell_type = type})

extract_ipynb_code(attr) ==
    IF ~attr.readable \/ ~attr.parse_ok
    THEN Message("notebook_error", 24 + attr.err_len, FALSE)
    ELSE LET cells == attr.cells
             header == Part("header", 0,
                            20 + Digits(CountCells(cells, "code")) + 13
                               + Digits(CountCells(cells, "markdown")) + 16, <<>>)
             content_parts == <<header>> \o AllCellParts(cells, 1)
         IN  PyValue(FALSE, "notebook", <<>>, 0,
                     SumLen(content_parts)
                        + Len(content_parts) - 1,
                     FALSE, content_parts, 0, 0)

-----------------------------------------------------------------------------
(* process_file_content *)

\* (mutant: a file of exactly 5000 bytes is still read raw)
JsonIsSmallInclusive(file_size) == file_size <= SMALL_JSON

\* file_size < 5000
JsonIsSmall(file_size) == file_size < SMALL_JSON

\* the .json branch
JsonContent(attr, file_size) ==
    IF ~attr.readable THEN ReadError(attr)
    ELSE IF JsonIsSmall(file_size) THEN ReadText(attr)
    ELSE IF attr.parse_ok
    THEN Message("json_summary",
                 12 + FormatSizeLen(file_size) + 3 + attr.summary_len, FALSE)
    ELSE Message("json_error", 19 + attr.err_len + 1, FALSE)

\* the .jsonl branch
JsonlContent(attr, file_size) ==
    IF ~attr.readable THEN ReadError(attr)
    ELSE LET h     == Decode(attr.head)
             total == TextLen(h, attr.fill)
             nl    == TotalNL(h, attr.fill)
             nread == IF nl >= JSONL_LINES THEN JSONL_LINES
                      ELSE IF nl = 0 THEN (IF total > 0 THEN 1 ELSE 0)
                      ELSE nl + (IF total > CharsThroughNL(h, attr.fill, nl)
                                 THEN 1 ELSE 0)
             chars == IF nl >= JSONL_LINES
                      THEN CharsThroughNL(h, attr.fill, JSONL_LINES) ELSE total
         IN  IF nread = 0 THEN Message("empty_jsonl", 12, FALSE)
             ELSE PyValue(FALSE, "jsonl", h, attr.fill,
                          13 + FormatSizeLen(file_size) + 2
                             + 8 + Digits(nread) + 9 + chars + 16,
                          FALSE, <<>>, nread, nread)

\* the .yaml/.yml/.toml branch
ConfigContent(attr) ==
    IF ~attr.readable THEN ReadError(attr)
    ELSE LET h       == Decode(attr.head)
             content == ReadText(attr)
             note    == SplitCount(h, attr.fill) - MAX_LINES_PREVIEW
         IN  IF content.len > MAX_FILE_SIZE_FULL
             THEN PyValue(FALSE, "config_preview", h, attr.fill,
                          PreviewLen(h, attr.fill) + 7 + IntLen(note) + 12,
                          StartsWithError(h), <<>>, note,
                          Min(SplitCount(h, attr.fill), MAX_LINES_PREVIEW))
             ELSE content

\* the branch of the other text files
TextContent(attr, file_size) ==
    IF ~attr.readable THEN ReadError(attr)
    ELSE LET h == Decode(attr.head)
         IN  IF file_size > MAX_FILE_SIZE_FULL
             THEN PyValue(FALSE, "text_preview", h, attr.fill,
                          PreviewLen(h, attr.fill) + 19
                             + FormatSizeLen(file_size) + 7,
                          StartsWithError(h), <<>>, 0,
                          Min(SplitCount(h, attr.fill), MAX_LINES_PREVIEW))
             ELSE ReadText(attr)

process_file_content(filename, attr) ==
    LET ext       == ExtOf(filename)
        file_size == SizeOf(attr)
    IN  IF ~attr.exists THEN None
        ELSE IF file_size > MAX_FILE_SIZE_PARTIAL THEN TooLarge(file_size)
        ELSE IF filename.ext = ".ipynb" THEN extract_ipynb_code(attr)
        ELSE IF ext = ".json" THEN JsonContent(attr, file_size)
        ELSE IF ext = ".jsonl" THEN JsonlContent(attr, file_size)
        ELSE IF ext \in {".yaml", ".yml", ".toml"} THEN ConfigContent(attr)
        ELSE IF ext \in TEXT_EXTENSIONS \/ filename \in PRIORITY_FILES \/ ext = ""
        THEN TextContent(attr, file_size)
        ELSE None

-----------------------------------------------------------------------------
(* process_files and main *)

Attr(exists, readable, head, fill, parse_ok, summary_len, err_len, cells) ==
    [exists |-> exists, readable |-> readable, head |-> head, fill |-> fill,
     parse_ok |-> parse_ok, summary_len |-> summary_len, err_len |-> err_len,
     cells |-> cells]

Cell(cell_type, lines) == [cell_type |-> cell_type, lines |-> lines]

\* a Python str of `len` characters, a Python int
PyStr(len) == [type |-> "str", len |-> len, val |-> 0]

PyInt(val) == [type |-> "int", len |-> 0, val |-> val]

\* str(n)
str(n) == PyStr(IntLen(n.val))

\* len(text) // ESTIMATED_CHARS_PER_TOKEN; len() of an int raises TypeError
estimate_tokens(text) ==
    IF text.type = "str"
    THEN [raised |-> FALSE, value |-> text.len \div ESTIMATED_CHARS_PER_TOKEN]
    ELSE [raised |-> TRUE, value |-> 0]

\* main up to the opening of the output file
Start ==
    /\ pc = "start"
    /\ console' = IF quiet THEN console ELSE Append(console, "Scanning")
    /\ \E opened \in BOOLEAN :
          IF opened
          THEN /\ output' = "open"
               /\ pc' = "tree"
               /\ UNCHANGED exit_status
          ELSE /\ output' = "failed"
               /\ pc' = "raised"
               /\ exit_status' = 1
    /\ UNCHANGED <<fs, exclude_dirs, summarize_dirs, gitignore_patterns, quiet,
                   tree_lines, tree_stats, tree_counted, files, next_file,
                   handled, file_stats, footer, call, ret>>

\* what the disk can hold for a collected file when the loop reaches it
NeedsParse(filename) == ExtOf(filename) = ".json" \/ filename.ext = ".ipynb"

MainCells == <<Cell("code", <<MD_LIMIT + 1>>), Cell("markdown", <<3, 4>>)>>

MainHeads == {<<"x">>, <<"[Error">>}

MainFills == {0, SMALL_JSON, MAX_FILE_SIZE_FULL, MAX_FILE_SIZE_PARTIAL}

MainAttrs(filename) ==
    { Attr(FALSE, FALSE, <<>>, 0, FALSE, 0, 0, <<>>),
      Attr(TRUE, FALSE, <<"x">>, 0, FALSE, 0, ErrLen, <<>>) }
    \cup { Attr(TRUE, TRUE, h, fill, ok, SummaryLen, ErrLen,
                IF filename.ext = ".ipynb" THEN MainCells ELSE <<>>) :
             h \in MainHeads, fill \in MainFills,
             ok \in IF NeedsParse(filename) THEN BOOLEAN ELSE {TRUE} }

\* one iteration of the loop of process_files
ProcessFile ==
    /\ pc = "process"
    /\ next_file <= Len(files)
    /\ \E attr \in MainAttrs(files[next_file].name) :
          LET filename == files[next_file].name
              content  == process_file_content(filename, attr)
          IN  /\ handled' = Append(handled,
                               [file |-> files[next_file], attr |-> attr,
                                content |-> content])
              /\ file_stats' =
                    IF content.is_none
                    THEN [file_stats EXCEPT !.skipped = @ + 1]
                    ELSE [file_stats EXCEPT
                            !.errors = IF content.starts_error THEN @ + 1 ELSE @,
                            !.processed = @ + 1,
                            !.total_chars = @ + content.len]
    /\ next_file' = next_file + 1
    /\ UNCHANGED <<fs, exclude_dirs, summarize_dirs, gitignore_patterns, quiet,
                   pc, tree_lines, tree_stats, tree_counted, files, footer,
                   console, exit_status, output, call, ret>>

\* the summary footer, and the end of the with block
WriteSummary ==
    /\ pc = "process"
    /\ next_file > Len(files)
    /\ LET tokens == estimate_tokens(str(PyInt(file_stats.total_chars)))
       IN  IF tokens.raised
           THEN /\ pc' = "raised"
                /\ exit_status' = 1
                /\ UNCHANGED footer
           ELSE /\ footer' = [written |-> TRUE,
                              processed |-> file_stats.processed,
                              skipped |-> file_stats.skipped,
                              errors |-> file_stats.errors,
                              tokens |-> tokens.value]
                /\ pc' = "final"
                /\ UNCHANGED exit_status
    /\ output' = "closed"
    /\ UNCHANGED <<fs, exclude_dirs, summarize_dirs, gitignore_patterns, quiet,
                   tree_lines, tree_stats, tree_counted, files, next_file,
                   handled, file_stats, console, call, ret>>

\* os.path.getsize(output_file): the blocks and ReportBase bytes around them
OutputSize == ReportBase + file_stats.total_chars

\* the final output of main
FinalOutput ==
    /\ pc = "final"
    /\ IF quiet
       THEN /\ pc' = "done"
            /\ exit_status' = 0
            /\ UNCHANGED console
       ELSE LET tokens == estimate_tokens(PyInt(OutputSize))
            IN  IF tokens.raised
                THEN /\ pc' = "raised"
                     /\ exit_status' = 1
                     /\ console' = console \o <<"Context generated", "Size", "Files">>
                ELSE /\ pc' = "done"
                     /\ exit_status' = 0
                     /\ console' = console \o <<"Context generated", "Size", "Files",
                                                "Estimated tokens">>
    /\ UNCHANGED <<fs, exclude_dirs, summarize_dirs, gitignore_patterns, quiet,
                   tree_lines, tree_stats, tree_counted, files, next_file,
                   handled, file_stats, footer, output, call, ret>>

MainFileNames ==
    << N("a", 0, ".py"), N("b", 0, ".PNG"), N("c", 0, ".lock"),
       N("cfg", 0, ".yaml"), N("d", 0, ".jsonl"), N("e", 0, ".json"),
       N("go", 0, ".mod"), N("n", 0, ".ipynb") >>

\* main on a root directory without subdirectories
Init ==
    /\ \E S \in SubsetsUpTo(DOMAIN MainFileNames, MaxMainFiles) :
          fs = <<Dir(ROOT_NAME, 0, FALSE, FALSE, Pick(MainFileNames, S))>>
    /\ exclude_dirs = DIRS_TO_EXCLUDE
    /\ summarize_dirs = DIRS_TO_SUMMARIZE
    /\ gitignore_patterns = {}
    /\ quiet \in BOOLEAN
    /\ pc = "start"
    /\ InitRest

Next ==
    \/ Start
    \/ GetDirectoryStructure
    \/ CollectFiles
    \/ ProcessFile
    \/ WriteSummary
    \/ FinalOutput

Spec == Init /\ [][Next]_vars

-----------------------------------------------------------------------------
(* The extractors on their own *)

RECURSIVE SeqsUpTo(_, _)
\* the sequences over S of length at most k
SeqsUpTo(S, k) ==
    IF k = 0 THEN {<<>>}
    ELSE LET shorter == SeqsUpTo(S, k - 1)
         IN  shorter \cup {Append(q, x) : q \in shorter, x \in S}

Tokens == {"x", "LF", "CR", "BAD", "U2", "[Error"}

\* file sizes around the thresholds of the extractor
ExtractSizes ==
    {0, SMALL_JSON - 1, SMALL_JSON, SMALL_JSON + 1, MAX_FILE_SIZE_FULL,
     MAX_FILE_SIZE_FULL + 1, MAX_FILE_SIZE_PARTIAL, MAX_FILE_SIZE_PARTIAL + 1}

ExtractNames ==
    { N("a", 0, ".py"), N("c", 0, ".lock"), N("cfg", 0, ".yaml"),
      N("d", 0, ".jsonl"), N("e", 0, ".json"), N("e", 0, ".JSON") }

\* the joined sources of the cells of a notebook, around the limit
NotebookSources ==
    { <<0>>, <<MD_LIMIT - 1>>, <<MD_LIMIT>>, <<MD_LIMIT + 1>>,
      <<MD_LIMIT + 100>>, <<10, MD_LIMIT - 12>>, <<10, MD_LIMIT - 11>> }

NotebookCells ==
    {Cell(t, src) : t \in {"code", "markdown", "raw"}, src \in NotebookSources}

InitExtract ==
    /\ \/ \E filename \in ExtractNames, h \in SeqsUpTo(Tokens, MaxHead),
             size \in ExtractSizes, readable \in BOOLEAN, ok \in BOOLEAN :
             call = [op |-> "process_file_content", filename |-> filename,
                     attr |-> Attr(TRUE, readable, h,
                                   IF size > SumBytes(h) THEN size - SumBytes(h)
                                   ELSE 0,
                                   ok, SummaryLen, ErrLen, <<>>)]
       \/ \E cells \in SeqsUpTo(NotebookCells, MaxCells), ok \in BOOLEAN :
             call = [op |-> "extract_ipynb_code", filename |-> N("n", 0, ".ipynb"),
                     attr |-> Attr(TRUE, TRUE, <<>>, 0, ok, 0, ErrLen, cells)]
    /\ fs = <<Dir(ROOT_NAME, 0, FALSE, FALSE, <<>>)>>
    /\ exclude_dirs = DIRS_TO_EXCLUDE
    /\ summarize_dirs = DIRS_TO_SUMMARIZE
    /\ gitignore_patterns = {}
    /\ quiet = TRUE
    /\ pc = "call"
    /\ tree_lines = <<>>
    /\ tree_stats = NoStats
    /\ tree_counted = NoCounted
    /\ files = <<>>
    /\ next_file = 1
    /\ handled = <<>>
    /\ file_stats = NoFileStats
    /\ footer = [written |-> FALSE]
    /\ console = <<>>
    /\ exit_status = -1
    /\ output = "closed"
    /\ ret = [op |-> "none"]

ExtractUnchanged ==
    UNCHANGED <<fs, exclude_dirs, summarize_dirs, gitignore_patterns, quiet,
                tree_lines, tree_stats, tree_counted, files, next_file,
                handled, file_stats, footer, console, exit_status, output,
                call>>

ProcessFileContent ==
    /\ pc = "call"
    /\ call.op = "process_file_content"
    /\ ret' = process_file_content(call.filename, call.attr)
    /\ pc' = "returned"
    /\ ExtractUnchanged

ExtractIpynbCode ==
    /\ pc = "call"
    /\ call.op = "extract_ipynb_code"
    /\ ret' = extract_ipynb_code(call.attr)
    /\ pc' = "returned"
    /\ ExtractUnchanged

NextExtract == ProcessFileContent \/ ExtractIpynbCode

SpecExtract == InitExtract /\ [][NextExtract]_vars

-----------------------------------------------------------------------------
(* summarize_json_structure.  A JSON value is [type, len, members]: len is *)
(* the number of characters of a string (of the repr of another scalar),   *)
(* members the values of an object (in key order) or the items of an array.*)

MAX_DEPTH == 4
MAX_ITEMS == 5
STR_LIMIT == 60
REPR_CUT == 50
INLINE_ITEMS == 3

JsonStr(len) == [type |-> "str", len |-> len, members |-> <<>>]

JsonNum(len) == [type |-> "num", len |-> len, members |-> <<>>]

JsonDict(members) == [type |-> "dict", len |-> 0, members |-> members]

JsonList(members) == [type |-> "list", len |-> 0, members |-> members]

IsContainer(data) == data.type \in {"dict", "list"}

\* a piece of the summary: `count` is the number printed in a placeholder
\* or an array header, `shown` the rendered members, `note` the number of
\* the elision line, `chars` the characters of the value that are printed
Rendering(kind, of, count, shown, has_note, note, chars, ellipsis, closed) ==
    [kind |-> kind, of |-> of, count |-> count, shown |-> shown,
     has_note |-> has_note, note |-> note, chars |-> chars,
     ellipsis |-> ellipsis, closed |-> closed]

\* repr(data) of a scalar
Repr(data) ==
    Rendering("repr", data.type, 0, <<>>, FALSE, 0, data.len, FALSE, TRUE)

\* repr(data)[:50] of a scalar: the opening quote of a string is one of the 50
ReprCut(data) ==
    IF data.type = "str"
    THEN Rendering("repr_cut", "str", 0, <<>>, FALSE, 0,
                   Min(data.len, REPR_CUT - 1), FALSE, data.len + 2 <= REPR_CUT)
    ELSE Rendering("repr_cut", data.type, 0, <<>>, FALSE, 0,
                   Min(data.len, REPR_CUT), FALSE, TRUE)

\* f'"{data[:60]}..."'
StrCut(data) ==
    Rendering("str_cut", "str", 0, <<>>, FALSE, 0, STR_LIMIT, TRUE, TRUE)

\* f"{{...}} ({len(data)} keys)", f"[...] ({len(data)} items)"
Placeholder(data) ==
    Rendering("placeholder", data.type, Len(data.members), <<>>, FALSE, 0, 0,
              FALSE, TRUE)

\* (mutant: the limit is reached one level later)
AtDepthLimitLate(current_depth, max_depth) == current_depth > max_depth

\* current_depth >= max_depth
AtDepthLimit(current_depth, max_depth) == current_depth >= max_depth

\* len(data) <= 3 and all(isinstance(x, (str, int, float, bool, type(None))) ...)
IsInline(data) ==
    /\ Len(data.members) <= INLINE_ITEMS
    /\ \A i \in DOMAIN data.members : ~IsContainer(data.members[i])

RECURSIVE summarize_json_structure(_, _, _, _)
summarize_json_structure(data, max_depth, current_depth, max_items) ==
    IF AtDepthLimit(current_depth, max_depth)
    THEN IF IsContainer(data) THEN Placeholder(data) ELSE ReprCut(data)
    ELSE IF IsContainer(data)
    THEN IF data.members = <<>>
         THEN Rendering("empty", data.type, 0, <<>>, FALSE, 0, 0, FALSE, TRUE)
         ELSE IF data.type = "list" /\ IsInline(data)
         THEN Rendering("inline", "list", 0,
                        [i \in DOMAIN data.members |-> Repr(data.members[i])],
                        FALSE, 0, 0, FALSE, TRUE)
         ELSE LET n == Len(data.members)
              IN  Rendering("expanded", data.type,
                            IF data.type = "list" THEN n ELSE 0,
                            [i \in 1..Min(n, max_items) |->
                               summarize_json_structure(data.members[i], max_depth,
                                                        current_depth + 1,
                                                        max_items)],
                            n > max_items,
                            IF n > max_items THEN n - max_items ELSE 0,
                            0, FALSE, TRUE)
    ELSE IF data.type = "str"
    THEN IF data.len > STR_LIMIT THEN StrCut(data) ELSE Repr(data)
    ELSE Repr(data)

\* a container of `count` members: `first`, then short strings
Nested(type, count, first) ==
    [type |-> type, len |-> 0,
     members |-> <<first>> \o [i \in 1..(count - 1) |-> JsonStr(i)]]

JsonLeaves ==
    { JsonStr(STR_LIMIT), JsonStr(STR_LIMIT + 1), JsonStr(REPR_CUT - 2),
      JsonNum(3), JsonDict(<<>>),
      JsonList(<<JsonStr(STR_LIMIT + 1), JsonNum(1)>>) }

JsonCounts == {1, MAX_ITEMS, MAX_ITEMS + 1}

RECURSIVE JsonValues(_)
\* the values with at most `depth` containers around a leaf
JsonValues(depth) ==
    IF depth = 0 THEN JsonLeaves
    ELSE LET inner == JsonValues(depth - 1)
         IN  inner \cup {Nested(t, n, v) :
                            t \in {"dict", "list"}, n \in JsonCounts, v \in inner}

InitJson ==
    /\ \E data \in JsonValues(MaxNest) :
          call = [op |-> "summarize_json_structure", data |-> data]
    /\ fs = <<Dir(ROOT_NAME, 0, FALSE, FALSE, <<>>)>>
    /\ exclude_dirs = DIRS_TO_EXCLUDE
    /\ summarize_dirs = DIRS_TO_SUMMARIZE
    /\ gitignore_patterns = {}
    /\ quiet = TRUE
    /\ pc = "call"
    /\ tree_lines = <<>>
    /\ tree_stats = NoStats
    /\ tree_counted = NoCounted
    /\ files = <<>>
    /\ next_file = 1
    /\ handled = <<>>
    /\ file_stats = NoFileStats
    /\ footer = [written |-> FALSE]
    /\ console = <<>>
    /\ exit_status = -1
    /\ output = "closed"
    /\ ret = [op |-> "none"]

\* summarize_json_structure(data, max_depth=4, max_items=5)
SummarizeJson ==
    /\ pc = "call"
    /\ call.op = "summarize_json_structure"
    /\ ret' = summarize_json_structure(call.data, MAX_DEPTH, 0, MAX_ITEMS)
    /\ pc' = "returned"
    /\ ExtractUnchanged

NextJson == SummarizeJson

SpecJson == InitJson /\ [][NextJson]_vars

-----------------------------------------------------------------------------
(* What the claims speak of *)

TreeBuilt == pc # "tree" /\ pc # "start" /\ tree_lines # <<>>

LinesWhere(P(_)) == {i \in DOMAIN tree_lines : P(tree_lines[i])}

\* _walk_dir was called on d
Visited(d) == \E i \in DOMAIN tree_lines :
                 tree_lines[i].kind \in {"root", "dir"} /\ tree_lines[i].dir = d

\* ... and listed it
Listed(d) == Visited(d) /\ ~fs[d].denied

\* the rendered children of d in emission order
ChildLines(d) ==
    SelectSeq(tree_lines,
              LAMBDA l : l.in = d /\ l.kind \in {"file", "more", "skipped", "dir"})

\* the files of d that are neither ignored nor the tool's own
NonIgnored(d) ==
    SeqToSet(fs[d].files) \ (gitignore_patterns \cup {OUTPUT_FILE, SCRIPT_NAME})

\* ... and whose extension is not in the skip set
Showable(d) == {f \in NonIgnored(d) : Lower(f.ext) \notin EXTENSIONS_TO_SKIP}

(* C1: in every directory the last rendered child has the closing          *)
(* connector and every other child the other one, and the lines under a    *)
(* last subdirectory are indented by four spaces.                          *)
C1_LastChildCloses ==
    TreeBuilt =>
      \A d \in Dirs :
        LET ch == ChildLines(d)
        IN  /\ \A i \in DOMAIN ch :
                  ch[i].connector = IF i = Len(ch) THEN "\\-- " ELSE "|-- "
            /\ (ch # <<>> /\ ch[Len(ch)].kind = "dir") =>
                  \A j \in DOMAIN tree_lines :
                     tree_lines[j].in = ch[Len(ch)].dir =>
                        tree_lines[j].prefix = Append(ch[Len(ch)].prefix, "    ")

(* C3: a summarized directory that the walk lists has no file line, no     *)
(* "more" or "skipped" line, no subdirectory visited, and one summary line *)
(* exactly when it holds a non-ignored file.                               *)
C3_SummarizedDirOneLine ==
    TreeBuilt =>
      \A d \in Dirs :
        (Listed(d) /\ fs[d].name \in summarize_dirs) =>
           /\ ChildLines(d) = <<>>
           /\ \A c \in Dirs : fs[c].parent = d => ~Visited(c)
           /\ Cardinality(LinesWhere(LAMBDA l : l.in = d /\ l.kind = "summary"))
                 = (IF NonIgnored(d) # {} THEN 1 ELSE 0)
           /\ \A i \in LinesWhere(LAMBDA l : l.in = d /\ l.kind = "summary") :
                 tree_lines[i].n = Cardinality(NonIgnored(d))

C3_Witness ==
    /\ TreeBuilt
    /\ \E d \in Dirs :
         /\ Listed(d) /\ fs[d].name \in summarize_dirs
         /\ Cardinality(NonIgnored(d)) > MAX_FILES_PER_DIR
         /\ \E c \in Dirs : fs[c].parent = d /\ fs[c].files # <<>>
         /\ \E i \in DOMAIN tree_lines :
               tree_lines[i].in = d /\ tree_lines[i].kind = "summary"

(* C4: a listed, non-summarized directory with n show-able files has       *)
(* min(n, 30) file lines, and one "... and (n - 30) more files" line       *)
(* exactly when n > 30.                                                    *)
C4_FileCap ==
    TreeBuilt =>
      \A d \in Dirs :
        (Listed(d) /\ fs[d].name \notin summarize_dirs) =>
           LET n    == Cardinality(Showable(d))
               more == LinesWhere(LAMBDA l : l.in = d /\ l.kind = "more")
           IN  /\ Cardinality(LinesWhere(LAMBDA l : l.in = d /\ l.kind = "file"))
                     = (IF n < 30 THEN n ELSE 30)
               /\ Cardinality(more) = (IF n > 30 THEN 1 ELSE 0)
               /\ \A i \in more : tree_lines[i].n = n - 30

C4_Witness ==
    /\ TreeBuilt
    /\ \E d \in Dirs :
         /\ Listed(d) /\ fs[d].name \notin summarize_dirs
         /\ Cardinality(Showable(d)) = MAX_FILES_PER_DIR + Extra
         /\ Cardinality(LinesWhere(LAMBDA l : l.in = d /\ l.kind = "file")) = 30
         /\ \E i \in DOMAIN tree_lines :
               /\ tree_lines[i].in = d /\ tree_lines[i].kind = "more"
               /\ tree_lines[i].n = Extra

\* every file under the root, as (directory, name)
AllFiles == UNION {PathsOf(d, fs[d].files) : d \in Dirs}

\* the files collect_files returned
Collected == {Path(files[i].dir, files[i].name) : i \in DOMAIN files}

Walked == pc \notin {"start", "tree", "collect"}

\* d and its ancestors, the root left out
RECURSIVE Chain(_)
Chain(d) == IF d = rootdir THEN {} ELSE {d} \cup Chain(fs[d].parent)

\* the proper ancestors of d, the root included
Above(d) == IF d = rootdir THEN {} ELSE (Chain(fs[d].parent) \cup {rootdir})

\* the four classes of a file
ClassSkippedByExt(p) == p \in tree_counted.skipped

ClassSummarized(p) == p \in tree_counted.summarized

ClassRendered(p) == p \in tree_counted.total

ClassIgnored(p) ==
    \/ p[2] \in gitignore_patterns \cup {OUTPUT_FILE, SCRIPT_NAME}
    \/ \E c \in Chain(p[1]) :
          \/ fs[c].name \in gitignore_patterns
          \/ fs[c].name \in exclude_dirs
          \/ fs[c].name.ext = ".egg-info"

NumClasses(p) ==
    (IF ClassSkippedByExt(p) THEN 1 ELSE 0) + (IF ClassSummarized(p) THEN 1 ELSE 0)
      + (IF ClassRendered(p) THEN 1 ELSE 0) + (IF ClassIgnored(p) THEN 1 ELSE 0)

\* the file is in a directory that cannot be listed, or beneath a
\* subdirectory of a summarized directory or of one that cannot be listed
OutOfReach(p) ==
    \/ fs[p[1]].denied
    \/ \E a \in Above(p[1]) : fs[a].denied \/ fs[a].name \in summarize_dirs

\* each tree counter counts the files recorded for it
CountersMatch ==
    /\ tree_stats.skipped_files = Cardinality(tree_counted.skipped)
    /\ tree_stats.summarized_files = Cardinality(tree_counted.summarized)
    /\ tree_stats.total_files = Cardinality(tree_counted.total)

NoContentForUnrendered ==
    \A p \in Collected :
        ~ClassSkippedByExt(p) /\ ~ClassSummarized(p) /\ ~ClassIgnored(p)

(* C2 as claimed: after the tree and the collection, every file under the  *)
(* root is in exactly one of the four classes, and no file with a content  *)
(* block is skipped, summarized or ignored.                                *)
C2_ExactlyOneClass ==
    Walked =>
      /\ \A p \in AllFiles : NumClasses(p) = 1
      /\ NoContentForUnrendered

(* C2 as amended: no file is in two classes or has a content block while   *)
(* skipped, summarized or ignored, and a file is in no class only if its   *)
(* directory cannot be listed or it lies beneath a subdirectory of a       *)
(* summarized (or unlistable) directory.                                   *)
C2_AtMostOneClass ==
    Walked =>
      /\ CountersMatch
      /\ \A p \in AllFiles :
            /\ NumClasses(p) <= 1
            /\ NumClasses(p) = 0 => OutOfReach(p)
      /\ NoContentForUnrendered

C2_Witness ==
    /\ Walked
    /\ \E p, q \in AllFiles :
          /\ ClassSummarized(p)
          /\ fs[q[1]].parent = p[1]
          /\ NumClasses(q) = 0

(* C5: the files collected for content extraction are the files the tree   *)
(* builder counted as show-able.                                           *)
C5_CollectedIsShowable ==
    Walked => Collected = tree_counted.total

-----------------------------------------------------------------------------
(* The counters of process_files and the end of main *)

\* no branch of process_file_content takes a file of this name
Unrecognised(filename) ==
    /\ filename.ext # ".ipynb"
    /\ ExtOf(filename) \notin
          TEXT_EXTENSIONS \cup {"", ".json", ".jsonl", ".yaml", ".yml", ".toml"}
    /\ filename \notin PRIORITY_FILES

OverCeiling(attr) == attr.exists /\ SizeOf(attr) > MAX_FILE_SIZE_PARTIAL

\* C6: every iteration of process_files adds one to exactly one of processed
\* and skipped; a file over the 200,000-byte ceiling gives the single
\* "[File too large" line and adds to processed; skipped grows only for a
\* file that is missing or whose extension no branch takes.
C6_OneCounterPerFile ==
    [][ (pc = "process" /\ next_file' = next_file + 1) =>
          LET h == handled'[Len(handled')]
              p == file_stats'.processed - file_stats.processed
              k == file_stats'.skipped - file_stats.skipped
          IN  /\ h.file = files[next_file]
              /\ (p = 1 /\ k = 0) \/ (p = 0 /\ k = 1)
              /\ OverCeiling(h.attr) =>
                    /\ p = 1
                    /\ h.content.kind = "too_large"
                    /\ h.content.len = 17 + FormatSizeLen(SizeOf(h.attr)) + 11
              /\ k = 1 => (~h.attr.exists \/ Unrecognised(h.file.name)) ]_vars

C6_Witness ==
    /\ pc = "final"
    /\ file_stats.processed = 1
    /\ file_stats.skipped = 1
    /\ \E i, j \in DOMAIN handled :
          /\ OverCeiling(handled[i].attr)
          /\ handled[i].content.kind = "too_large"
          /\ ~handled[j].attr.exists

\* C7: the token estimate of the footer is total_chars divided (integer
\* division) by the characters-per-token constant 4.
C7_FooterTokens ==
    footer.written =>
       footer.tokens = file_stats.total_chars \div ESTIMATED_CHARS_PER_TOKEN

\* C8: when the output file is created and written, main ends without
\* raising and with exit status 0, with and without the quiet flag.
C8_SuccessExitsZero ==
    (pc \in {"done", "raised"} /\ output # "failed") =>
       (pc = "done" /\ exit_status = 0)

-----------------------------------------------------------------------------
(* The notebook extractor *)

NotebookReturned ==
    pc = "returned" /\ call.op = "extract_ipynb_code" /\ ret.kind = "notebook"

PartsOf(i, kind) ==
    SelectSeq(ret.parts, LAMBDA part : part.cell = i /\ part.kind = kind)

\* the source of cell i is one part, as long as the source, and no line of
\* it is a comment line
CodeInFull(i) ==
    LET lines == call.attr.cells[i].lines
    IN  /\ Len(PartsOf(i, "code")) = 1
        /\ PartsOf(i, "code")[1].lines = lines
        /\ PartsOf(i, "code")[1].len = SumNat(lines) + Len(lines) - 1
        /\ PartsOf(i, "markdown_line") = <<>>

\* every line of cell i is a part of its own, two characters ("# ") longer
MarkdownEmitted(i) ==
    LET lines == call.attr.cells[i].lines
        out   == PartsOf(i, "markdown_line")
    IN  /\ Len(PartsOf(i, "markdown_marker")) = 1
        /\ Len(out) = Len(lines)
        /\ \A j \in DOMAIN lines : out[j].len = 2 + lines[j]
        /\ PartsOf(i, "code") = <<>>

MarkdownOmitted(i) ==
    \A j \in DOMAIN ret.parts : ret.parts[j].cell # i

SourceLen(i) ==
    SumNat(call.attr.cells[i].lines) + Len(call.attr.cells[i].lines) - 1

CellsRendered(longest) ==
    NotebookReturned =>
       \A i \in DOMAIN call.attr.cells :
          LET cell == call.attr.cells[i]
          IN  /\ cell.cell_type = "code" => CodeInFull(i)
              /\ cell.cell_type = "markdown" =>
                    IF SourceLen(i) <= longest
                    THEN MarkdownEmitted(i) ELSE MarkdownOmitted(i)

\* C9 as stated: every code cell is emitted in full; a markdown cell is
\* emitted, each line with the comment prefix, iff its joined source has at
\* most 500 characters.
C9_MarkdownUpTo500 == CellsRendered(MD_LIMIT)

\* C9: every code cell is emitted in full whatever its length; a markdown
\* cell is emitted, each line with the comment prefix, iff its joined source
\* is shorter than 500 characters (499 is emitted, 500 is omitted); code
\* lines carry no prefix.
C9_MarkdownBelow500 == CellsRendered(MD_LIMIT - 1)

C9_Witness ==
    /\ NotebookReturned
    /\ \E i, j \in DOMAIN call.attr.cells :
          /\ call.attr.cells[i].cell_type = "markdown"
          /\ SourceLen(i) = MD_LIMIT
          /\ MarkdownOmitted(i)
          /\ call.attr.cells[j].cell_type = "code"
          /\ SourceLen(j) > MD_LIMIT
          /\ CodeInFull(j)

-----------------------------------------------------------------------------
(* The .json branch *)

JsonReturned ==
    /\ pc = "returned"
    /\ call.op = "process_file_content"
    /\ ExtOf(call.filename) = ".json"
    /\ call.attr.exists
    /\ call.attr.readable

Occurrences(h, t) == Cardinality({i \in DOMAIN h : h[i] = t})

\* the characters of h that are neither line ends nor replacements
Plain(h) == SelectSeq(h, LAMBDA t : t \notin {"CR", "LF", "BAD", "FFFD"})

NeverVerbatim ==
    (SizeOf(call.attr) >= SMALL_JSON /\ SizeOf(call.attr) <= MAX_FILE_SIZE_PARTIAL)
       => ret.kind \in {"json_summary", "json_error"}

\* C10 as stated: a .json file below 5000 bytes is emitted identical to its
\* content; one of 5000 bytes or more, up to the ceiling, is emitted as a
\* parsed summary or a parse-error line.
C10_JsonSmallVerbatim ==
    JsonReturned =>
       /\ SizeOf(call.attr) < SMALL_JSON =>
             /\ ret.kind = "text"
             /\ ret.head = call.attr.head
             /\ ret.fill = call.attr.fill
       /\ NeverVerbatim

\* C10: a readable .json file below 5000 bytes is emitted as its decoded
\* text, neither parsed nor annotated: identical to the content when the
\* content is valid UTF-8 without carriage returns, and otherwise with every
\* undecodable byte replaced by U+FFFD and every "\r\n" or "\r" by "\n";
\* one of 5000 bytes or more, up to the ceiling, is emitted as a parsed
\* summary or a parse-error line.
C10_JsonSmallDecoded ==
    JsonReturned =>
       /\ SizeOf(call.attr) < SMALL_JSON =>
             /\ ret.kind = "text"
             /\ ret.fill = call.attr.fill
             /\ Plain(ret.head) = Plain(call.attr.head)
             /\ Occurrences(ret.head, "FFFD") = Occurrences(call.attr.head, "BAD")
             /\ Occurrences(ret.head, "CR") = 0
             /\ Occurrences(ret.head, "BAD") = 0
             /\ Occurrences(ret.head, "LF") =
                   Occurrences(call.attr.head, "LF")
                      + Occurrences(call.attr.head, "CR")
                      - Cardinality({i \in DOMAIN call.attr.head :
                                        /\ call.attr.head[i] = "CR"
                                        /\ i < Len(call.attr.head)
                                        /\ call.attr.head[i + 1] = "LF"})
             /\ (Occurrences(call.attr.head, "CR") = 0
                   /\ Occurrences(call.attr.head, "BAD") = 0)
                => ret.head = call.attr.head
       /\ NeverVerbatim

C10_Witness ==
    /\ JsonReturned
    /\ SizeOf(call.attr) = SMALL_JSON - 1
    /\ Occurrences(call.attr.head, "CR") > 0
    /\ ret.kind = "text"
    /\ ret.head # call.attr.head

-----------------------------------------------------------------------------
(* The JSON summary *)

JsonSummarized == pc = "returned" /\ call.op = "summarize_json_structure"

RECURSIVE Bounded(_, _, _)
\* `out` renders `data`, a value at nesting depth `depth`: a container at
\* depth 4 is a placeholder with its count, one above shows at most 5
\* members, the first ones, and the note with the number of the others
Bounded(data, out, depth) ==
    IF ~(data.type \in {"dict", "list"}) THEN out.shown = <<>>
    ELSE IF depth >= 4
    THEN /\ out.kind = "placeholder"
         /\ out.of = data.type
         /\ out.count = Len(data.members)
         /\ out.shown = <<>>
    ELSE /\ out.kind # "placeholder"
         /\ Len(out.shown) <= 5
         /\ Len(out.shown) <= Len(data.members)
         /\ IF Len(data.members) > 5
            THEN /\ Len(out.shown) = 5
                 /\ out.has_note
                 /\ out.note = Len(data.members) - 5
            ELSE ~out.has_note
         /\ \A i \in DOMAIN out.shown :
               Bounded(data.members[i], out.shown[i], depth + 1)

RECURSIVE Deepest(_)
\* the depth of the deepest member that `out` shows
Deepest(out) ==
    IF out.shown = <<>> THEN 0
    ELSE LET below == {Deepest(out.shown[i]) : i \in DOMAIN out.shown}
         IN  1 + CHOOSE d \in below : \A e \in below : e <= d

\* C11: in the summary made with max_depth=4 and max_items=5, every object
\* or array that is expanded shows at most 5 members and, when it has more,
\* one elision note with the number (member count - 5); every object or
\* array at nesting depth 4 is a count-only placeholder with its exact
\* count; no member deeper than 4 appears.
C11_BoundedSummary ==
    JsonSummarized => (Bounded(call.data, ret, 0) /\ Deepest(ret) <= 4)

C11_Witness ==
    /\ JsonSummarized
    /\ call.data =
          Nested("dict", 6,
            Nested("list", 6,
              Nested("dict", 1,
                Nested("list", 5,
                  Nested("dict", 6, JsonNum(3))))))
    /\ ret.has_note
    /\ ret.note = 1
    /\ Len(ret.shown) = 5
    /\ ret.shown[1].shown[1].shown[1].shown[1].kind = "placeholder"
    /\ ret.shown[1].shown[1].shown[1].shown[1].count = 6
    /\ Deepest(ret) = 4

RECURSIVE StringsCut(_, _)
\* every string that `out` shows of `data` is cut to 60 characters and an
\* ellipsis when it is longer, and is quoted in full when it is not
StringsCut(data, out) ==
    IF data.type = "str"
    THEN IF data.len > 60
         THEN out.chars = 60 /\ out.ellipsis
         ELSE out.chars = data.len /\ ~out.ellipsis /\ out.closed
    ELSE \A i \in DOMAIN out.shown : StringsCut(data.members[i], out.shown[i])

\* C12: every string of the summary, at whatever depth (depth 4 and inline
\* arrays of at most 3 scalars included), appears as its first 60 characters
\* and an ellipsis when it is longer than 60 characters, and quoted in full
\* when it is not.
C12_StringsCutAt60 == JsonSummarized => StringsCut(call.data, ret)

-----------------------------------------------------------------------------
(* The .yaml/.yml/.toml branch *)

ConfigReturned ==
    /\ pc = "returned"
    /\ call.op = "process_file_content"
    /\ ExtOf(call.filename) \in {".yaml", ".yml", ".toml"}
    /\ call.attr.exists
    /\ call.attr.readable
    /\ SizeOf(call.attr) <= MAX_FILE_SIZE_PARTIAL

\* L: the number of lines of the text of the file
LineCount == SplitCount(Decode(call.attr.head), call.attr.fill)

\* C13: a .yaml/.yml/.toml file of 20,000 bytes or more is emitted as its
\* first min(100, L) lines and a note with the number L - min(100, L) of
\* the lines left out, which is never negative; a smaller one is emitted in
\* full, without a note.
C13_ConfigPreview ==
    ConfigReturned =>
       IF SizeOf(call.attr) >= MAX_FILE_SIZE_FULL
       THEN /\ ret.kind = "config_preview"
            /\ ret.kept = Min(MAX_LINES_PREVIEW, LineCount)
            /\ ret.n = LineCount - Min(MAX_LINES_PREVIEW, LineCount)
            /\ ret.n >= 0
       ELSE /\ ret.kind = "text"
            /\ ret.fill = call.attr.fill
            /\ ret.len = TextLen(ret.head, ret.fill)

-----------------------------------------------------------------------------
(* The errors counter *)

\* the extraction of the file failed with a read or a parse failure and an
\* inline marker took the place of its content
ExtractionFailed(h) ==
    /\ h.attr.exists
    /\ ~OverCeiling(h.attr)
    /\ ~Unrecognised(h.file.name)
    /\ \/ ~h.attr.readable
       \/ /\ ~h.attr.parse_ok
          /\ \/ h.file.name.ext = ".ipynb"
             \/ /\ ExtOf(h.file.name) = ".json"
                /\ SizeOf(h.attr) >= SMALL_JSON

\* C14: after any number of files, errors is the number of files whose
\* extraction failed (unreadable file, malformed large JSON, malformed
\* notebook); a file that was read successfully adds nothing to errors, and
\* errors never exceeds processed.
C14_ErrorsCountFailures ==
    /\ file_stats.errors =
          Cardinality({i \in DOMAIN handled : ExtractionFailed(handled[i])})
    /\ file_stats.errors <= file_stats.processed

====
